---- MODULE Spec2Model ----
(***************************************************************************)
(* applyMiddleware (src/lib/redux/applyMiddleware.ts): the store enhancer  *)
(* that wraps a store's dispatch in a chain of middleware.                 *)
(*                                                                         *)
(* The program is single threaded and synchronous, so its execution is a   *)
(* call stack.  The model keeps that stack explicitly: every function of   *)
(* the source that can be on the stack (the enhanced store creator, a      *)
(* middleware constructor, a transform next => handler, a handler, the     *)
(* forwarding middlewareAPI.dispatch, the guard, the base store's          *)
(* dispatch) is a frame, and every action of the model is one step of the  *)
(* frame on top of the stack.  A finished call leaves its value or its     *)
(* error in `result`, where the caller below picks it up.                  *)
(*                                                                         *)
(* The middleware are the caller's code: the model draws each of them from *)
(* a set of behaviours (Kinds) that exercise the mechanism.                *)
(***************************************************************************)
EXTENDS Integers, Sequences, FiniteSets, TLC

\* ---------------------------------------------------------------- bounds
MaxK == 3          \* longest middleware list
MaxCalls == 3      \* calls made from outside: store creations and dispatches
NumStores == 2     \* most stores created from the one enhanced store creator
MaxKMany == 1      \* longest middleware list when more than one store is created

Stores == 1..NumStores
Amounts == {1, 2}
InitialState == 0

\* ------------------------------------------------------- values and inputs
\* Every value that travels through the pipeline has the same shape.
Val(t, a, o) == [type |-> t, amount |-> a, from |-> o]

NoVal == Val("none", 0, 0)
PoisonAction == Val("poison", 0, 0)
ExternalActions == {Val("add", a, 0) : a \in Amounts} \cup {PoisonAction}
\* the action a re-dispatching handler of middleware i sends to api.dispatch
ReAction(i) == Val("re", 1, i)
\* the action a middleware sends while the store is still being built
EarlyAction(i) == Val("add", 1, i)
GuardError == Val("guardError", 0, 0)
ReducerError == Val("reducerError", 0, 0)
CtorError(i) == Val("ctorError", 0, i)
HandlerError(i) == Val("handlerError", 0, i)
ShortValue(i) == Val("short", 0, i)
TransformOf(i) == Val("transform", 0, i)
StoreValue(s) == Val("store", 0, s)

\* What a middleware does.  Each kind departs from "pass" in one place.
\*   pass          handler: log before, next(action), log after, return next's result
\*   short         handler: returns its own value, never calls next
\*   reenter       handler: api.dispatch(ReAction) first, then as pass
\*   throws        handler: raises its own error
\*   ctorDispatch  constructor: calls api.dispatch, does not catch
\*   ctorCatch     constructor: calls api.dispatch inside try/catch
\*   ctorThrow     constructor: raises its own error
\*   save          constructor: keeps api.dispatch for a later, outside call
\*   xformDispatch transform: calls api.dispatch when given next
\*   xformNext     transform: calls the next it is given, at once
\*   ctorOnce      constructor: raises its own error when it has been called
\*                 for another store before (as "pass" in a single store)
Kinds == {"pass", "short", "reenter", "throws", "ctorDispatch", "ctorCatch",
          "ctorThrow", "save", "xformDispatch", "xformNext", "ctorOnce"}

RECURSIVE SeqsUpTo(_, _)
SeqsUpTo(S, n) ==
    IF n = 0 THEN {<<>>}
    ELSE LET shorter == SeqsUpTo(S, n - 1)
         IN  shorter \cup {Append(q, x) : q \in {r \in shorter : Len(r) = n - 1}, x \in S}

\* Function values: what a variable or a closure of the program can refer to.
Fn(f, i) == [f |-> f, i |-> i]
NoFn == Fn("none", 0)
GuardFn == Fn("guard", 0)             \* lines 63-68
BaseFn == Fn("base", 0)               \* store.dispatch
HandlerFn(i) == Fn("handler", i)      \* the handler transform i returned
ApiFn == Fn("api", 0)                 \* middlewareAPI.dispatch, line 72

\* A stack frame.  pc is the frame's position, nx the function value it holds
\* (a transform's next argument, compose's accumulator).
Frame(fn, s, i, act, pc, nx) ==
    [fn |-> fn, s |-> s, i |-> i, act |-> act, pc |-> pc, nx |-> nx]

\* The base store object createStore returns: its fields and what they refer to.
BaseStore == [getState |-> Fn("getState", 0), dispatch |-> BaseFn,
              subscribe |-> Fn("subscribe", 0)]
NoStore == [getState |-> NoFn, dispatch |-> NoFn, subscribe |-> NoFn]

Res(k, v) == [kind |-> k, val |-> v]
NoRes == Res("none", NoVal)

\* A raised error, with the store state and the log at the moment it was raised.
Raise(e, st, lg) == [err |-> e, state |-> st, log |-> lg]
NoRaise == Raise(NoVal, 0, <<>>)

VARIABLES
    middlewares,  \* the argument list of applyMiddleware: a sequence of Kinds
    wanted,       \* how many stores the caller creates from the enhanced creator
    store,        \* per store: the base store object of line 62
    spread,       \* per store: the fields line 90 copies into the returned object
    status,       \* per store: "none", "constructing", "returned", "failed"
    state,        \* per store: the base store's current state
    dispatch,     \* per store: the `let dispatch` of line 63, the indirection cell
    chain,        \* per store: the transforms line 76 has collected so far
    nextOf,       \* per store: the next each handler's closure captured
    returned,     \* per store: the dispatch field of the object lines 89-92 return
    saved,        \* per store: middleware that kept a reference to api.dispatch
    stack,        \* the call stack, top last
    result,       \* value or error of the call that just finished
    log,          \* what ran during the current outside call
    call,         \* the current (or last) outside call
    calls,        \* number of outside calls so far
    ctorCalls,    \* per store: constructors invoked, in order
    sent,         \* per store: the actions dispatched on it from outside, in order
    seen,         \* per entry of log: what api.getState() returned to the handler
                  \* (for a base entry, the state the base dispatch left)
    views,        \* per store: the API object each constructor was handed, in order
    writes,       \* per store: the values assigned to the cell after line 63, in order
    raised        \* the error raised during the current outside call, and when

vars == <<middlewares, wanted, seen, views, writes, store, spread, status, state,
          dispatch, chain, nextOf, returned, saved, stack, result, log, call, calls,
          ctorCalls, sent, raised>>

K == Len(middlewares)
Top == stack[Len(stack)]
Pop == SubSeq(stack, 1, Len(stack) - 1)
Running == stack # <<>>

\* The frame a call of function value f with action a pushes.
CallFrame(f, s, a) == Frame(f.f, s, f.i, a, "start", NoFn)

\* AfterMap, had line 87 given compose's result the cell (`dispatch`) instead
\* of store.dispatch.
AfterMapSeedsCell(s, i) ==
    IF i < K THEN Frame("construct", s, i + 1, NoVal, "map", NoFn)
    ELSE Frame("construct", s, K, NoVal, "compose", dispatch[s])

\* The construct frame's position once constructor i has returned: the next
\* constructor of middlewares.map (line 76), or compose(...chain)(store.dispatch)
\* (line 87), which starts with the last transform and store.dispatch.
AfterMap(s, i) ==
    IF i < K THEN Frame("construct", s, i + 1, NoVal, "map", NoFn)
    ELSE Frame("construct", s, K, NoVal, "compose", BaseFn)

\* The transition function of the stores: (state, action) -> state + action.amount.
reducer(st, act) == st + act.amount

TypeOK ==
    /\ Len(middlewares) <= MaxK
    /\ \A i \in 1..Len(middlewares) : middlewares[i] \in Kinds
    /\ wanted \in Stores
    /\ store \in [Stores -> {NoStore, BaseStore}]
    /\ spread \in [Stores -> {NoStore, BaseStore}]
    /\ status \in [Stores -> {"none", "constructing", "returned", "failed"}]
    /\ state \in [Stores -> Int]
    /\ dispatch \in [Stores -> {NoFn, GuardFn, BaseFn} \cup {HandlerFn(i) : i \in 1..MaxK}]
    /\ calls \in 0..MaxCalls
    /\ result.kind \in {"none", "value", "error"}

Init ==
    /\ middlewares \in SeqsUpTo(Kinds, MaxK)
    /\ wanted \in Stores
    /\ wanted > 1 => Len(middlewares) <= MaxKMany
    /\ wanted = 1 => \A i \in 1..Len(middlewares) : middlewares[i] # "ctorOnce"
    /\ store = [s \in Stores |-> NoStore]
    /\ spread = [s \in Stores |-> NoStore]
    /\ status = [s \in Stores |-> "none"]
    /\ state = [s \in Stores |-> InitialState]
    /\ dispatch = [s \in Stores |-> NoFn]
    /\ chain = [s \in Stores |-> <<>>]
    /\ nextOf = [s \in Stores |-> [i \in 1..MaxK |-> NoFn]]
    /\ returned = [s \in Stores |-> NoFn]
    /\ saved = [s \in Stores |-> {}]
    /\ stack = <<>>
    /\ result = NoRes
    /\ log = <<>>
    /\ call = [kind |-> "none", s |-> 0, act |-> NoVal, pre |-> 0,
               preAll |-> [s \in Stores |-> InitialState], afterError |-> FALSE]
    /\ calls = 0
    /\ ctorCalls = [s \in Stores |-> <<>>]
    /\ sent = [s \in Stores |-> <<>>]
    /\ writes = [s \in Stores |-> <<>>]
    /\ views = [s \in Stores |-> <<>>]
    /\ seen = <<>>
    /\ raised = NoRaise

\* ------------------------------------------------ building a store (58-93)

\* CreateStore, had line 63 started `dispatch` at store.dispatch instead of
\* the guard.
CreateStoreNoGuard(s) ==
    /\ ~Running
    /\ calls < MaxCalls
    /\ s <= wanted
    /\ status[s] = "none"
    /\ \A r \in Stores : r < s => status[r] # "none"
    /\ status' = [status EXCEPT ![s] = "constructing"]
    /\ store' = [store EXCEPT ![s] = BaseStore]
    /\ state' = [state EXCEPT ![s] = InitialState]
    /\ dispatch' = [dispatch EXCEPT ![s] = BaseFn]
    /\ stack' = <<AfterMap(s, 0)>>
    /\ result' = NoRes
    /\ log' = <<>>
    /\ seen' = <<>>
    /\ call' = [kind |-> "construct", s |-> s, act |-> NoVal, pre |-> InitialState,
                preAll |-> state, afterError |-> FALSE]
    /\ calls' = calls + 1
    /\ raised' = NoRaise
    /\ UNCHANGED <<middlewares, wanted, views, writes, spread, chain, nextOf,
                   returned, saved, ctorCalls, sent>>

\* Lines 58-73: the enhanced store creator is called.  It creates the base
\* store, points `dispatch` at the guard and builds middlewareAPI.
CreateStore(s) ==
    /\ ~Running
    /\ calls < MaxCalls
    /\ s <= wanted
    /\ status[s] = "none"
    /\ \A r \in Stores : r < s => status[r] # "none"
    /\ status' = [status EXCEPT ![s] = "constructing"]
    /\ store' = [store EXCEPT ![s] = BaseStore]
    /\ state' = [state EXCEPT ![s] = InitialState]
    /\ dispatch' = [dispatch EXCEPT ![s] = GuardFn]
    /\ stack' = <<AfterMap(s, 0)>>
    /\ result' = NoRes
    /\ log' = <<>>
    /\ seen' = <<>>
    /\ call' = [kind |-> "construct", s |-> s, act |-> NoVal, pre |-> InitialState,
                preAll |-> state, afterError |-> FALSE]
    /\ calls' = calls + 1
    /\ raised' = NoRaise
    /\ UNCHANGED <<middlewares, wanted, views, writes, spread, chain, nextOf,
                   returned, saved, ctorCalls, sent>>

\* Lines 70-73: the API object of store s; `id` tells one object from another
\* with the same fields.
middlewareAPI(s) == [id |-> s, getState |-> BaseStore.getState, dispatch |-> ApiFn]

\* MapCall, had line 76 handed every constructor a copy of its own,
\* middleware({ ...middlewareAPI }).
MapCallFreshView ==
    /\ Running /\ Top.fn = "construct" /\ Top.pc = "map" /\ result.kind = "none"
    /\ stack' = Append(stack, Frame("ctor", Top.s, Top.i, NoVal, "start", NoFn))
    /\ ctorCalls' = [ctorCalls EXCEPT ![Top.s] = Append(@, Top.i)]
    /\ views' = [views EXCEPT ![Top.s] =
                    Append(@, [middlewareAPI(Top.s) EXCEPT !.id = NumStores + Top.i])]
    /\ UNCHANGED <<middlewares, wanted, seen, writes, store, spread, status, state,
                   dispatch, chain, nextOf, returned, saved, result, log, call, calls,
                   sent, raised>>

\* Line 76, middlewares.map: call the next constructor with middlewareAPI.
MapCall ==
    /\ Running /\ Top.fn = "construct" /\ Top.pc = "map" /\ result.kind = "none"
    /\ stack' = Append(stack, Frame("ctor", Top.s, Top.i, NoVal, "start", NoFn))
    /\ ctorCalls' = [ctorCalls EXCEPT ![Top.s] = Append(@, Top.i)]
    /\ views' = [views EXCEPT ![Top.s] = Append(@, middlewareAPI(Top.s))]
    /\ UNCHANGED <<middlewares, wanted, seen, writes, store, spread, status, state,
                   dispatch, chain, nextOf, returned, saved, result, log, call, calls,
                   sent, raised>>

\* Line 76: the constructor returned its transform; map stores it and goes on.
MapReturn ==
    /\ Running /\ Top.fn = "construct" /\ Top.pc = "map" /\ result.kind = "value"
    /\ chain' = [chain EXCEPT ![Top.s] = Append(@, result.val)]
    /\ stack' = Append(Pop, AfterMap(Top.s, Top.i))
    /\ result' = NoRes
    /\ UNCHANGED <<middlewares, wanted, seen, views, writes, store, spread, status,
                   state, dispatch, nextOf, returned, saved, log, call, calls,
                   ctorCalls, sent, raised>>

\* Line 87, compose(...chain)(store.dispatch): the composed function applies the
\* transforms from the last to the first, each to what the one after it returned.
ComposeCall ==
    /\ Running /\ Top.fn = "construct" /\ Top.pc = "compose" /\ result.kind = "none"
    /\ Top.i >= 1
    /\ stack' = Append(stack, Frame("xform", Top.s, Top.i, NoVal, "start", Top.nx))
    /\ UNCHANGED <<middlewares, wanted, seen, views, writes, store, spread, status,
                   state, dispatch, chain, nextOf, returned, saved, result, log, call,
                   calls, ctorCalls, sent, raised>>

ComposeReturn ==
    /\ Running /\ Top.fn = "construct" /\ Top.pc = "compose" /\ result.kind = "value"
    /\ stack' = Append(Pop, Frame("construct", Top.s, Top.i - 1, NoVal, "compose",
                                  HandlerFn(result.val.from)))
    /\ result' = NoRes
    /\ UNCHANGED <<middlewares, wanted, seen, views, writes, store, spread, status,
                   state, dispatch, chain, nextOf, returned, saved, log, call, calls,
                   ctorCalls, sent, raised>>

\* Assign, had line 87 composed the chain without assigning the result.
AssignNoWrite ==
    /\ Running /\ Top.fn = "construct" /\ Top.pc = "compose" /\ result.kind = "none"
    /\ Top.i = 0
    /\ stack' = Append(Pop, Frame("construct", Top.s, 0, NoVal, "return", NoFn))
    /\ UNCHANGED <<middlewares, wanted, seen, views, writes, store, spread, status,
                   state, dispatch, chain, nextOf, returned, saved, result, log, call,
                   calls, ctorCalls, sent, raised>>

\* Line 87, the assignment: `dispatch` now refers to the composed function.
Assign ==
    /\ Running /\ Top.fn = "construct" /\ Top.pc = "compose" /\ result.kind = "none"
    /\ Top.i = 0
    /\ dispatch' = [dispatch EXCEPT ![Top.s] = Top.nx]
    /\ writes' = [writes EXCEPT ![Top.s] = Append(@, Top.nx)]
    /\ stack' = Append(Pop, Frame("construct", Top.s, 0, NoVal, "return", NoFn))
    /\ UNCHANGED <<middlewares, wanted, seen, views, store, spread, status, state,
                   chain, nextOf, returned, saved, result, log, call, calls, ctorCalls,
                   sent, raised>>

\* ReturnStore, had lines 89-92 returned { ...store } alone.
ReturnStoreBase ==
    /\ Running /\ Top.fn = "construct" /\ Top.pc = "return"
    /\ returned' = [returned EXCEPT ![Top.s] = BaseFn]
    /\ spread' = [spread EXCEPT ![Top.s] = store[Top.s]]
    /\ status' = [status EXCEPT ![Top.s] = "returned"]
    /\ stack' = Pop
    /\ result' = Res("value", StoreValue(Top.s))
    /\ UNCHANGED <<middlewares, wanted, seen, views, writes, store, state, dispatch,
                   chain, nextOf, saved, log, call, calls, ctorCalls, sent, raised>>

\* ReturnStore, had lines 89-92 handed out the composed function and put the
\* guard back into the cell.
ReturnStoreRearms ==
    /\ Running /\ Top.fn = "construct" /\ Top.pc = "return"
    /\ returned' = [returned EXCEPT ![Top.s] = dispatch[Top.s]]
    /\ dispatch' = [dispatch EXCEPT ![Top.s] = GuardFn]
    /\ writes' = [writes EXCEPT ![Top.s] = Append(@, GuardFn)]
    /\ spread' = [spread EXCEPT ![Top.s] = store[Top.s]]
    /\ status' = [status EXCEPT ![Top.s] = "returned"]
    /\ stack' = Pop
    /\ result' = Res("value", StoreValue(Top.s))
    /\ UNCHANGED <<middlewares, wanted, seen, views, store, state, chain, nextOf,
                   saved, log, call, calls, ctorCalls, sent, raised>>

\* ReturnStore, had lines 89-92 been `store.dispatch = dispatch; return store`.
ReturnStoreInPlace ==
    /\ Running /\ Top.fn = "construct" /\ Top.pc = "return"
    /\ returned' = [returned EXCEPT ![Top.s] = dispatch[Top.s]]
    /\ store' = [store EXCEPT ![Top.s].dispatch = dispatch[Top.s]]
    /\ spread' = [spread EXCEPT ![Top.s] = store'[Top.s]]
    /\ status' = [status EXCEPT ![Top.s] = "returned"]
    /\ stack' = Pop
    /\ result' = Res("value", StoreValue(Top.s))
    /\ UNCHANGED <<middlewares, wanted, seen, views, writes, state, dispatch, chain,
                   nextOf, saved, log, call, calls, ctorCalls, sent, raised>>

\* Lines 89-92: return { ...store, dispatch }.
ReturnStore ==
    /\ Running /\ Top.fn = "construct" /\ Top.pc = "return"
    /\ returned' = [returned EXCEPT ![Top.s] = dispatch[Top.s]]
    /\ spread' = [spread EXCEPT ![Top.s] = store[Top.s]]
    /\ status' = [status EXCEPT ![Top.s] = "returned"]
    /\ stack' = Pop
    /\ result' = Res("value", StoreValue(Top.s))
    /\ UNCHANGED <<middlewares, wanted, seen, views, writes, store, state, dispatch,
                   chain, nextOf, saved, log, call, calls, ctorCalls, sent, raised>>

\* --------------------------------------------- the middleware (caller's code)

Kind(i) == middlewares[i]

\* Constructor i has already been called for a store other than s.
CalledElsewhere(i, s) ==
    \E t \in Stores \ {s} : \E n \in 1..Len(ctorCalls[t]) : ctorCalls[t][n] = i

\* A constructor, middleware(middlewareAPI), starts running.
CtorRun ==
    /\ Running /\ Top.fn = "ctor" /\ Top.pc = "start"
    /\ LET s == Top.s
           i == Top.i
       IN  CASE Kind(i) \in {"ctorDispatch", "ctorCatch"} ->
                  /\ stack' = Append(Append(Pop, Frame("ctor", s, i, NoVal, "called", NoFn)),
                                     CallFrame(ApiFn, s, EarlyAction(i)))
                  /\ UNCHANGED <<result, saved, raised>>
             [] \/ Kind(i) = "ctorThrow"
                \/ Kind(i) = "ctorOnce" /\ CalledElsewhere(i, s) ->
                  /\ stack' = Pop
                  /\ result' = Res("error", CtorError(i))
                  /\ raised' = Raise(CtorError(i), state[s], log)
                  /\ UNCHANGED saved
             [] Kind(i) = "save" ->
                  /\ stack' = Pop
                  /\ result' = Res("value", TransformOf(i))
                  /\ saved' = [saved EXCEPT ![s] = @ \cup {i}]
                  /\ UNCHANGED raised
             [] OTHER ->
                  /\ stack' = Pop
                  /\ result' = Res("value", TransformOf(i))
                  /\ UNCHANGED <<saved, raised>>
    /\ UNCHANGED <<middlewares, wanted, seen, views, writes, store, spread, status,
                   state, dispatch, chain, nextOf, returned, log, call, calls,
                   ctorCalls, sent>>

\* The api.dispatch call of a constructor is over: a "ctorCatch" constructor
\* catches what it raised; either kind then returns its transform.
CtorResume ==
    /\ Running /\ Top.fn = "ctor" /\ Top.pc = "called"
    /\ \/ result.kind = "value"
       \/ result.kind = "error" /\ Kind(Top.i) = "ctorCatch"
    /\ stack' = Pop
    /\ result' = Res("value", TransformOf(Top.i))
    /\ raised' = NoRaise
    /\ UNCHANGED <<middlewares, wanted, seen, views, writes, store, spread, status,
                   state, dispatch, chain, nextOf, returned, saved, log, call, calls,
                   ctorCalls, sent>>

\* A transform is applied to its next and builds its handler, whose closure
\* keeps next.
XformRun ==
    /\ Running /\ Top.fn = "xform" /\ Top.pc = "start"
    /\ LET s == Top.s
           i == Top.i
           waiting == Append(Pop, Frame("xform", s, i, NoVal, "called", Top.nx))
       IN  /\ nextOf' = [nextOf EXCEPT ![s][i] = Top.nx]
           /\ CASE Kind(i) = "xformDispatch" ->
                     /\ stack' = Append(waiting, CallFrame(ApiFn, s, EarlyAction(i)))
                     /\ UNCHANGED result
                [] Kind(i) = "xformNext" ->
                     /\ stack' = Append(waiting, CallFrame(Top.nx, s, EarlyAction(i)))
                     /\ UNCHANGED result
                [] OTHER ->
                     /\ stack' = Pop
                     /\ result' = Res("value", Val("handler", 0, i))
    /\ UNCHANGED <<middlewares, wanted, seen, views, writes, store, spread, status,
                   state, dispatch, chain, returned, saved, log, call, calls,
                   ctorCalls, sent, raised>>

\* The call a transform made has returned; the transform returns its handler.
XformResume ==
    /\ Running /\ Top.fn = "xform" /\ Top.pc = "called" /\ result.kind = "value"
    /\ stack' = Pop
    /\ result' = Res("value", Val("handler", 0, Top.i))
    /\ UNCHANGED <<middlewares, wanted, seen, views, writes, store, spread, status,
                   state, dispatch, chain, nextOf, returned, saved, log, call, calls,
                   ctorCalls, sent, raised>>

\* store.getState(): the current state of the base store.
getState(s) == state[s]

\* apiGetState, had line 71 been `getState: () => state0` with state0 read
\* from the store when the API object is built.
apiGetStateSnapshot(s) == InitialState

\* Line 71: middlewareAPI.getState is store.getState itself.
apiGetState(s) == getState(s)

LogEntry(s, i, tag, act) == [s |-> s, i |-> i, tag |-> tag, act |-> act]

\* A handler is called with an action.
HandlerRun ==
    /\ Running /\ Top.fn = "handler" /\ Top.pc = "start"
    /\ LET s == Top.s
           i == Top.i
           a == Top.act
       IN  /\ log' = Append(log, LogEntry(s, i, "before", a))
           /\ seen' = Append(seen, apiGetState(s))
           /\ CASE Kind(i) = "short" ->
                     /\ stack' = Pop
                     /\ result' = Res("value", ShortValue(i))
                     /\ UNCHANGED raised
                [] Kind(i) = "throws" ->
                     /\ stack' = Pop
                     /\ result' = Res("error", HandlerError(i))
                     /\ raised' = Raise(HandlerError(i), state[s], log')
                [] Kind(i) = "reenter" /\ a.type # "re" ->
                     /\ stack' = Append(Append(Pop, Frame("handler", s, i, a, "reentered", NoFn)),
                                        CallFrame(ApiFn, s, ReAction(i)))
                     /\ UNCHANGED <<result, raised>>
                [] OTHER ->
                     /\ stack' = Append(Append(Pop, Frame("handler", s, i, a, "after", NoFn)),
                                        CallFrame(nextOf[s][i], s, a))
                     /\ UNCHANGED <<result, raised>>
    /\ UNCHANGED <<middlewares, wanted, views, writes, store, spread, status,
                   state, dispatch, chain, nextOf, returned, saved, call, calls,
                   ctorCalls, sent>>

\* A "reenter" handler's api.dispatch has returned: it now calls next(action).
HandlerNext ==
    /\ Running /\ Top.fn = "handler" /\ Top.pc = "reentered" /\ result.kind = "value"
    /\ stack' = Append(Append(Pop, Frame("handler", Top.s, Top.i, Top.act, "after", NoFn)),
                       CallFrame(nextOf[Top.s][Top.i], Top.s, Top.act))
    /\ result' = NoRes
    /\ UNCHANGED <<middlewares, wanted, seen, views, writes, store, spread, status,
                   state, dispatch, chain, nextOf, returned, saved, log, call, calls,
                   ctorCalls, sent, raised>>

\* next(action) has returned: the handler logs and returns what next returned.
HandlerAfter ==
    /\ Running /\ Top.fn = "handler" /\ Top.pc = "after" /\ result.kind = "value"
    /\ log' = Append(log, LogEntry(Top.s, Top.i, "after", Top.act))
    /\ seen' = Append(seen, apiGetState(Top.s))
    /\ stack' = Pop
    /\ UNCHANGED <<middlewares, wanted, views, writes, store, spread, status,
                   state, dispatch, chain, nextOf, returned, saved, result, call,
                   calls, ctorCalls, sent, raised>>

\* ------------------------------------------------- dispatch (63-73, 87-92)

\* ApiDispatch, had line 72 been `dispatch: dispatch` (the value the cell has
\* when the API object is built, which is the guard).
ApiDispatchByValue ==
    /\ Running /\ Top.fn = "api"
    /\ stack' = Append(Pop, CallFrame(GuardFn, Top.s, Top.act))
    /\ UNCHANGED <<middlewares, wanted, seen, views, writes, store, spread, status,
                   state, dispatch, chain, nextOf, returned, saved, result, log, call,
                   calls, ctorCalls, sent, raised>>

\* ApiDispatch, had `let dispatch` (line 63) been one cell for all stores,
\* declared outside the store creator: the cell of the first store.
ApiDispatchSharedCell ==
    /\ Running /\ Top.fn = "api"
    /\ stack' = Append(Pop, CallFrame(dispatch[1], 1, Top.act))
    /\ UNCHANGED <<middlewares, wanted, seen, views, writes, store, spread, status,
                   state, dispatch, chain, nextOf, returned, saved, result, log, call,
                   calls, ctorCalls, sent, raised>>

\* ApiDispatch, had line 72 been `dispatch: store.dispatch`.
ApiDispatchDirect ==
    /\ Running /\ Top.fn = "api"
    /\ stack' = Append(Pop, CallFrame(BaseFn, Top.s, Top.act))
    /\ UNCHANGED <<middlewares, wanted, seen, views, writes, store, spread, status,
                   state, dispatch, chain, nextOf, returned, saved, result, log, call,
                   calls, ctorCalls, sent, raised>>

\* Line 72: middlewareAPI.dispatch forwards to whatever `dispatch` refers to now.
ApiDispatch ==
    /\ Running /\ Top.fn = "api"
    /\ stack' = Append(Pop, CallFrame(dispatch[Top.s], Top.s, Top.act))
    /\ UNCHANGED <<middlewares, wanted, seen, views, writes, store, spread, status,
                   state, dispatch, chain, nextOf, returned, saved, result, log, call,
                   calls, ctorCalls, sent, raised>>

\* GuardThrow, had the guard error torn down the whole call of the store
\* creator instead of being thrown to the caller of dispatch.
GuardThrowUnwinds ==
    /\ Running /\ Top.fn = "guard"
    /\ stack' = <<>>
    /\ status' = [status EXCEPT ![Top.s] = IF @ = "constructing" THEN "failed" ELSE @]
    /\ result' = Res("error", GuardError)
    /\ raised' = Raise(GuardError, state[Top.s], log)
    /\ UNCHANGED <<middlewares, wanted, seen, views, writes, store, spread, state,
                   dispatch, chain, nextOf, returned, saved, log, call, calls,
                   ctorCalls, sent>>

\* Lines 63-68: the guard throws.
GuardThrow ==
    /\ Running /\ Top.fn = "guard"
    /\ stack' = Pop
    /\ result' = Res("error", GuardError)
    /\ raised' = Raise(GuardError, state[Top.s], log)
    /\ UNCHANGED <<middlewares, wanted, seen, views, writes, store, spread, status,
                   state, dispatch, chain, nextOf, returned, saved, log, call, calls,
                   ctorCalls, sent>>

\* store.dispatch of the base store: applies the transition function and
\* returns the action; an error of the transition function leaves the state.
BaseDispatch ==
    /\ Running /\ Top.fn = "base"
    /\ stack' = Pop
    /\ IF Top.act.type = "poison"
       THEN /\ result' = Res("error", ReducerError)
            /\ raised' = Raise(ReducerError, state[Top.s], log)
            /\ UNCHANGED <<state, log, seen>>
       ELSE /\ state' = [state EXCEPT ![Top.s] = reducer(@, Top.act)]
            /\ log' = Append(log, LogEntry(Top.s, 0, "base", Top.act))
            /\ seen' = Append(seen, state'[Top.s])
            /\ result' = Res("value", Top.act)
            /\ UNCHANGED raised
    /\ UNCHANGED <<middlewares, wanted, views, writes, store, spread, status,
                   dispatch, chain, nextOf, returned, saved, call, calls, ctorCalls,
                   sent>>

\* An error nobody on top catches unwinds one frame; when it leaves the
\* enhanced store creator, no store was returned.
Catches(fr) == fr.fn = "ctor" /\ fr.pc = "called" /\ Kind(fr.i) = "ctorCatch"

\* Propagate, had line 76 caught what a constructor raises and gone on to the
\* next constructor.
PropagateResumes ==
    /\ Running /\ result.kind = "error" /\ ~Catches(Top)
    /\ IF Top.fn = "construct" /\ Top.pc = "map"
       THEN /\ stack' = Append(Pop, AfterMap(Top.s, Top.i))
            /\ result' = NoRes
       ELSE /\ stack' = Pop
            /\ UNCHANGED result
    /\ status' = IF Top.fn = "construct" /\ Top.pc # "map"
                 THEN [status EXCEPT ![Top.s] = "failed"]
                 ELSE status
    /\ UNCHANGED <<middlewares, wanted, seen, views, writes, store, spread, state,
                   dispatch, chain, nextOf, returned, saved, log, call, calls,
                   ctorCalls, sent, raised>>

\* Propagate, had the forwarding dispatch of line 72 caught the error of the
\* function it calls and returned nothing.
PropagateSwallow ==
    /\ Running /\ result.kind = "error" /\ ~Catches(Top)
    /\ stack' = Pop
    /\ result' = IF Top.fn = "handler" /\ Top.pc = "reentered"
                 THEN Res("value", NoVal) ELSE result
    /\ status' = IF Top.fn = "construct" THEN [status EXCEPT ![Top.s] = "failed"]
                 ELSE status
    /\ UNCHANGED <<middlewares, wanted, seen, views, writes, store, spread, state,
                   dispatch, chain, nextOf, returned, saved, log, call, calls,
                   ctorCalls, sent, raised>>

Propagate ==
    /\ Running /\ result.kind = "error" /\ ~Catches(Top)
    /\ stack' = Pop
    /\ status' = IF Top.fn = "construct" THEN [status EXCEPT ![Top.s] = "failed"]
                 ELSE status
    /\ UNCHANGED <<middlewares, wanted, seen, views, writes, store, spread, state,
                   dispatch, chain, nextOf, returned, saved, result, log, call, calls,
                   ctorCalls, sent, raised>>

\* The caller dispatches an action on a store it was given.
DispatchCall(s, a) ==
    /\ ~Running
    /\ calls < MaxCalls
    /\ status[s] = "returned"
    /\ stack' = <<CallFrame(returned[s], s, a)>>
    /\ result' = NoRes
    /\ log' = <<>>
    /\ seen' = <<>>
    /\ call' = [kind |-> "dispatch", s |-> s, act |-> a, pre |-> state[s],
                preAll |-> state, afterError |-> (result.kind = "error" /\ call.s = s)]
    /\ calls' = calls + 1
    /\ sent' = [sent EXCEPT ![s] = Append(@, a)]
    /\ raised' = NoRaise
    /\ UNCHANGED <<middlewares, wanted, views, writes, store, spread, status,
                   state, dispatch, chain, nextOf, returned, saved, ctorCalls>>

\* Something outside (a timer, a callback) calls the api.dispatch a constructor
\* kept, once the store creator is no longer running.
SavedCall(s, a) ==
    /\ ~Running
    /\ calls < MaxCalls
    /\ status[s] \in {"returned", "failed"}
    /\ saved[s] # {}
    /\ stack' = <<CallFrame(ApiFn, s, a)>>
    /\ result' = NoRes
    /\ log' = <<>>
    /\ seen' = <<>>
    /\ call' = [kind |-> "saved", s |-> s, act |-> a, pre |-> state[s],
                preAll |-> state, afterError |-> (result.kind = "error" /\ call.s = s)]
    /\ calls' = calls + 1
    /\ sent' = [sent EXCEPT ![s] = Append(@, a)]
    /\ raised' = NoRaise
    /\ UNCHANGED <<middlewares, wanted, views, writes, store, spread, status,
                   state, dispatch, chain, nextOf, returned, saved, ctorCalls>>

Next ==
    \/ \E s \in Stores : CreateStore(s)
    \/ MapCall
    \/ MapReturn
    \/ ComposeCall
    \/ ComposeReturn
    \/ Assign
    \/ ReturnStore
    \/ CtorRun
    \/ CtorResume
    \/ XformRun
    \/ XformResume
    \/ HandlerRun
    \/ HandlerNext
    \/ HandlerAfter
    \/ ApiDispatch
    \/ GuardThrow
    \/ BaseDispatch
    \/ Propagate
    \/ \E s \in Stores, a \in ExternalActions : DispatchCall(s, a)
    \/ \E s \in Stores, a \in ExternalActions : SavedCall(s, a)

Spec == Init /\ [][Next]_vars

\* ------------------------------------------------ reference and vocabulary

\* An unwrapped base store given the same transition function, initial state
\* and actions: its state after the actions of seq, and what its dispatch
\* gives for action a.
RECURSIVE RefState(_, _)
RefState(st, seq) ==
    IF seq = <<>> THEN st
    ELSE RefState(IF Head(seq).type = "poison" THEN st ELSE reducer(st, Head(seq)),
                  Tail(seq))

RefResult(a) ==
    IF a.type = "poison" THEN Res("error", ReducerError) ELSE Res("value", a)

IsPrefix(a, b) == Len(a) <= Len(b) /\ SubSeq(b, 1, Len(a)) = a
Range(q) == {q[n] : n \in 1..Len(q)}
ButLast(q) == SubSeq(q, 1, Len(q) - 1)
Idle == ~Running

\* The handler of middleware i logs, calls next once, logs and returns
\* what next returned.
HandlerPasses(i) == Kind(i) \notin {"short", "reenter", "throws"}
AllPass == \A i \in 1..K : HandlerPasses(i)

\* The log of one action through k passing handlers and the base dispatch.
PassLog(s, a, k) ==
    [n \in 1..(2 * k + 1) |->
        IF n <= k THEN LogEntry(s, n, "before", a)
        ELSE IF n = k + 1 THEN LogEntry(s, 0, "base", a)
        ELSE LogEntry(s, 2 * k + 2 - n, "after", a)]

\* The log of one action that handler c answers without calling next.
ShortLog(s, a, c) ==
    [n \in 1..(2 * c - 1) |->
        IF n <= c THEN LogEntry(s, n, "before", a)
        ELSE LogEntry(s, 2 * c - n, "after", a)]

\* ------------------------------------------------------------------ claims

\* C1: with an empty middleware list, every dispatch on the returned store
\* returns what the unwrapped base store's dispatch returns (or raises what
\* it raises) and leaves the state the unwrapped store would be in, for every
\* sequence of actions; while the call runs only the base dispatch is on the
\* stack.
C1_ZeroInterceptors ==
    K = 0 =>
      \A s \in Stores : status[s] = "returned" =>
        /\ Idle => state[s] = RefState(InitialState, sent[s])
        /\ (Idle /\ call.kind = "dispatch" /\ call.s = s) => result = RefResult(call.act)
        /\ (Running /\ call.s = s) =>
             /\ stack = <<CallFrame(BaseFn, s, call.act)>>
             /\ state[s] = RefState(InitialState, ButLast(sent[s]))

C1_Witness ==
    /\ K = 0 /\ Idle /\ call.kind = "dispatch"
    /\ Len(sent[call.s]) = 2
    /\ result = Res("value", call.act)
    /\ state[call.s] = 3

\* C2: when every handler of the chain logs, calls next once and logs, one
\* dispatch call logs 1-before .. K-before, the base dispatch, K-after ..
\* 1-after, in that order and nothing else.
C2_OrderPreserved ==
    (call.kind = "dispatch" /\ AllPass) =>
      /\ IsPrefix(log, PassLog(call.s, call.act, K))
      /\ (Idle /\ result.kind = "value") => log = PassLog(call.s, call.act, K)

C2_Witness ==
    /\ K = 3 /\ AllPass /\ call.kind = "dispatch" /\ Idle
    /\ log = <<LogEntry(call.s, 1, "before", call.act),
               LogEntry(call.s, 2, "before", call.act),
               LogEntry(call.s, 3, "before", call.act),
               LogEntry(call.s, 0, "base", call.act),
               LogEntry(call.s, 3, "after", call.act),
               LogEntry(call.s, 2, "after", call.act),
               LogEntry(call.s, 1, "after", call.act)>>

\* C3: once a handler that returns without calling next (and without calling
\* api.dispatch) has run in a dispatch call, no handler after it and no base
\* dispatch runs in that call, the state stays what it was when the call
\* began, and the call returns that handler's value.
C3_ShortCircuit ==
    \A n \in 1..Len(log) :
      (call.kind = "dispatch" /\ log[n].i >= 1 /\ Kind(log[n].i) = "short") =>
        /\ \A m \in 1..Len(log) : log[m].tag # "base" /\ log[m].i <= log[n].i
        /\ state[call.s] = call.pre
        /\ Idle => result = Res("value", ShortValue(log[n].i))

C3_Witness ==
    /\ K = 3 /\ Kind(2) = "short" /\ Kind(1) = "reenter"
    /\ call.kind = "dispatch" /\ Idle
    /\ result = Res("value", ShortValue(2))
    /\ Len(log) > 3

\* Constructor i of store s has been invoked (line 76).
CtorInvoked(s, i) == i \in Range(ctorCalls[s])
\* The construction of store s is over: it returned a store or raised.
Over(s) == status[s] \in {"returned", "failed"}
\* The outside call that is running, or was the last to run, built store s.
Constructs(s) == call.kind = "construct" /\ call.s = s

\* C4, as claimed: a constructor that calls api.dispatch makes the store
\* creation fail with the guard error, and no store is returned.
C4_AnyCtorDispatchFails ==
    \A s \in Stores :
      (Over(s) /\ \E i \in 1..K : CtorInvoked(s, i) /\ Kind(i) \in {"ctorDispatch", "ctorCatch"}) =>
        /\ status[s] = "failed"
        /\ returned[s] = NoFn
        /\ (Idle /\ Constructs(s)) => result = Res("error", GuardError)

\* C4, amended: api.dispatch called by a constructor raises the guard error
\* in that constructor; when the constructor does not catch it, the store
\* creation fails with the guard error and no store is returned.
C4_GuardEnforced ==
    /\ (Running /\ Top.fn = "ctor" /\ Top.pc = "called") => result = Res("error", GuardError)
    /\ \A s \in Stores :
         (Over(s) /\ \E i \in 1..K : Kind(i) = "ctorDispatch" /\ CtorInvoked(s, i)) =>
           /\ status[s] = "failed"
           /\ returned[s] = NoFn
           /\ (Idle /\ Constructs(s)) => result = Res("error", GuardError)

C4_Witness ==
    /\ K = 3 /\ Kind(1) = "ctorCatch" /\ Kind(2) = "ctorDispatch"
    /\ Idle /\ Constructs(1) /\ status[1] = "failed"
    /\ ctorCalls[1] = <<1, 2>>
    /\ result = Res("error", GuardError)

\* The first middleware whose handler returns without calling next; 0 if none.
FirstShort ==
    IF \E i \in 1..K : Kind(i) = "short"
    THEN CHOOSE i \in 1..K : Kind(i) = "short" /\ \A j \in 1..(i - 1) : Kind(j) # "short"
    ELSE 0

\* The entries of the log that are about action a.
LogOf(a) == LET about(e) == e.act = a IN SelectSeq(log, about)

\* C5: the action X a handler of middleware i sends to api.dispatch, while it
\* handles Y on a returned store, enters the chain at the first handler; by the
\* time api.dispatch returns, X has gone through the whole chain down to the
\* base dispatch and back (or down to the first handler that answers without
\* calling next, and back), and Y has not gone past handler i.
C5_ReentrantDispatch ==
    /\ \A p \in 1..(Len(stack) - 1) :
         (stack[p].fn = "handler" /\ stack[p].pc = "reentered"
            /\ status[stack[p].s] = "returned") =>
           /\ stack[p + 1].fn \in {"api", "handler"}
           /\ stack[p + 1].act = ReAction(stack[p].i)
           /\ stack[p + 1].s = stack[p].s
           /\ stack[p + 1].fn = "handler" => stack[p + 1].i = 1
    /\ (Running /\ Top.fn = "handler" /\ Top.pc = "reentered" /\ result.kind = "value"
          /\ status[Top.s] = "returned") =>
           /\ LogOf(ReAction(Top.i)) =
                IF FirstShort = 0 THEN PassLog(Top.s, ReAction(Top.i), K)
                ELSE ShortLog(Top.s, ReAction(Top.i), FirstShort)
           /\ LogOf(Top.act) = [n \in 1..Top.i |-> LogEntry(Top.s, n, "before", Top.act)]

C5_Witness ==
    /\ K = 3 /\ Kind(2) = "reenter" /\ FirstShort = 0
    /\ Running /\ Top.fn = "handler" /\ Top.pc = "reentered" /\ Top.i = 2
    /\ result = Res("value", ReAction(2))
    /\ status[Top.s] = "returned"
    /\ Len(log) = 9

RECURSIVE SumAmounts(_)
SumAmounts(seq) == IF seq = <<>> THEN 0 ELSE Head(seq).amount + SumAmounts(Tail(seq))

\* No middleware short-circuits, raises, or dispatches an action of its own
\* that reaches the store.
PlainChain == \A i \in 1..K : Kind(i) \in {"pass", "save", "ctorCatch"}

\* C6: with the transition function state + action.amount and a chain that
\* neither short-circuits nor dispatches actions of its own, after N dispatch
\* calls the state is the initial state plus the sum of the N amounts, for
\* every chain length.
C6_StateConsistency ==
    \A s \in Stores :
      (status[s] = "returned" /\ Idle /\ PlainChain
         /\ \A n \in 1..Len(sent[s]) : sent[s][n].type = "add") =>
        state[s] = InitialState + SumAmounts(sent[s])

C6_Witness ==
    /\ K = 3 /\ PlainChain /\ Idle
    /\ Len(sent[1]) = 2 /\ sent[1][1].type = "add" /\ sent[1][2].type = "add"
    /\ state[1] = 3

\* C7, as claimed: once the construction of a store is over, however it
\* ended, no dispatch of that store reaches the guard.
C7_NeverGuardOnceOver ==
    \A s \in Stores :
      Over(s) => \A p \in 1..Len(stack) : ~(stack[p].fn = "guard" /\ stack[p].s = s)

\* C7, amended: once the store creator has returned a store, neither the
\* store's dispatch nor the api.dispatch its middleware captured reaches the
\* guard or raises the guard error.
C7_BoundAfterReturn ==
    \A s \in Stores :
      status[s] = "returned" =>
        /\ dispatch[s] \notin {GuardFn, NoFn}
        /\ returned[s] \notin {GuardFn, NoFn}
        /\ \A p \in 1..Len(stack) : ~(stack[p].fn = "guard" /\ stack[p].s = s)
        /\ call.s = s => raised.err # GuardError /\ result.val # GuardError

C7_Witness ==
    /\ K = 3 /\ call.kind = "saved" /\ status[call.s] = "returned" /\ Idle
    /\ result = Res("value", call.act)
    /\ Len(log) = 7

\* The frame is waiting for the api.dispatch it called.
CallsApi(fr) ==
    \/ fr.fn = "ctor" /\ fr.pc = "called"
    \/ fr.fn = "xform" /\ fr.pc = "called" /\ Kind(fr.i) = "xformDispatch"
    \/ fr.fn = "handler" /\ fr.pc = "reentered"

\* What `dispatch` refers to once line 87 has run: the first handler, or the
\* base dispatch when there is no middleware.
EntryFn == IF K = 0 THEN BaseFn ELSE HandlerFn(1)

\* C8, as claimed: api.dispatch called by a constructor reaches the guard;
\* called by a transform or by a handler it never does.
C8_GuardOnlyInCtor ==
    \A p \in 1..(Len(stack) - 1) :
      /\ (stack[p].fn = "ctor" /\ stack[p].pc = "called") =>
           stack[p + 1].fn \in {"api", "guard"}
      /\ stack[p].fn \in {"xform", "handler"} => stack[p + 1].fn # "guard"

\* C8, amended: api.dispatch reaches the guard exactly while the store is
\* being built, that is until line 87 has assigned the composed function:
\* when a constructor calls it, and also when a transform calls it or a
\* handler that a transform invoked calls it, since the transforms run inside
\* line 87 before the assignment.  Once the store is returned, api.dispatch
\* called by a handler reaches the composed function.
C8_GuardWhileUnbound ==
    \A p \in 1..(Len(stack) - 1) :
      (CallsApi(stack[p]) /\ stack[p + 1].fn # "api") =>
        /\ status[stack[p].s] \in {"constructing", "returned"}
        /\ status[stack[p].s] = "constructing" =>
             /\ dispatch[stack[p].s] = GuardFn
             /\ stack[p + 1].fn = "guard"
        /\ status[stack[p].s] = "returned" =>
             /\ stack[p].fn = "handler"
             /\ stack[p + 1].fn = EntryFn.f /\ stack[p + 1].i = EntryFn.i

C8_Witness ==
    /\ Len(stack) >= 2 /\ Top.fn = "guard"
    /\ stack[Len(stack) - 1].fn = "xform"
    /\ Kind(stack[Len(stack) - 1].i) = "xformDispatch"

\* C9: when the constructor of middleware i raises, no later constructor is
\* invoked, no transform is applied, the cell stays at the guard, no store
\* is returned, and the store creator's caller gets that same error.
C9_CtorErrorPropagates ==
    \A s \in Stores : \A i \in 1..K :
      (Kind(i) = "ctorThrow" /\ CtorInvoked(s, i)) =>
        /\ ctorCalls[s] = [n \in 1..i |-> n]
        /\ Len(chain[s]) = i - 1
        /\ \A j \in 1..MaxK : nextOf[s][j] = NoFn
        /\ dispatch[s] = GuardFn
        /\ returned[s] = NoFn
        /\ status[s] \in {"constructing", "failed"}
        /\ (Constructs(s) /\ raised.err = CtorError(i)) => result = Res("error", CtorError(i))
        /\ (Constructs(s) /\ Idle) =>
             /\ status[s] = "failed"
             /\ result = Res("error", CtorError(i))

C9_Witness ==
    /\ K = 3 /\ Kind(2) = "ctorThrow"
    /\ Idle /\ Constructs(1) /\ status[1] = "failed"
    /\ ctorCalls[1] = <<1, 2>>
    /\ result = Res("error", CtorError(2))

\* C10: an error raised during a dispatch on a returned store, by a handler
\* or by the base dispatch, is what the caller of dispatch gets; from the
\* moment it is raised no handler runs, the state and the cell do not change;
\* and the next dispatch enters the chain at the first handler again.
C10_RuntimeErrorPropagates ==
    /\ (call.kind \in {"dispatch", "saved"} /\ status[call.s] = "returned"
          /\ raised # NoRaise) =>
         /\ result = Res("error", raised.err)
         /\ state[call.s] = raised.state
         /\ log = raised.log
    /\ \A s \in Stores :
         status[s] = "returned" => dispatch[s] = EntryFn /\ returned[s] = EntryFn
    /\ (call.kind = "dispatch" /\ call.afterError /\ Running) =>
         /\ stack[1].fn = EntryFn.f /\ stack[1].i = EntryFn.i
         /\ stack[1].act = call.act

C10_Witness ==
    /\ K = 3 /\ call.kind = "dispatch" /\ call.afterError /\ Idle
    /\ Kind(3) = "reenter"
    /\ result = Res("value", call.act)
    /\ Len(log) = 14

\* ------------------------------------------------------------------- C11
\* The object lines 89-92 return: the copied fields, dispatch overridden.
ReturnedObject(s) == [spread[s] EXCEPT !.dispatch = returned[s]]

\* C11: the object the enhanced constructor returns has exactly the fields of
\* the base store with the same values, except dispatch, which is the composed
\* function; the base store object is not modified, its dispatch field is
\* still the native dispatch.
C11_ReturnedObjectFields ==
    \A s \in Stores :
        status[s] = "returned" =>
            /\ DOMAIN ReturnedObject(s) = DOMAIN store[s]
            /\ \A f \in DOMAIN store[s] \ {"dispatch"} :
                   ReturnedObject(s)[f] = store[s][f]
            /\ ReturnedObject(s).dispatch = EntryFn
            /\ store[s] = BaseStore
            /\ store[s].dispatch = BaseFn

C11_Witness ==
    /\ K = 2 /\ Idle
    /\ status[1] = "returned"
    /\ ReturnedObject(1).dispatch = HandlerFn(1)
    /\ ReturnedObject(1).getState = BaseStore.getState
    /\ store[1].dispatch = BaseFn
    /\ Len(sent[1]) > 0

\* ------------------------------------------------------------------- C12
\* C12: an api.dispatch a constructor kept and that is called only after the
\* store was returned reaches the composed function: the action enters at the
\* first handler, in the very state a call of the returned dispatch starts
\* in, never meets the guard, and through a chain of passing handlers logs,
\* returns and changes the state as a call of the returned dispatch does.
C12_SavedDispatchReachesChain ==
    (call.kind = "saved" /\ status[call.s] = "returned") =>
      /\ Running =>
           \/ stack = <<CallFrame(ApiFn, call.s, call.act)>>
           \/ /\ stack[1].fn = "handler" /\ stack[1].i = 1
              /\ stack[1].s = call.s /\ stack[1].act = call.act
      /\ (Running /\ stack[1].fn # "api" /\ stack[1].pc = "start") =>
           /\ stack = <<CallFrame(returned[call.s], call.s, call.act)>>
           /\ log = <<>> /\ result = NoRes /\ state[call.s] = call.pre
      /\ result # Res("error", GuardError)
      /\ AllPass =>
           /\ IsPrefix(log, PassLog(call.s, call.act, K))
           /\ (Idle /\ result.kind = "value") =>
                /\ log = PassLog(call.s, call.act, K)
                /\ result = RefResult(call.act)
                /\ state[call.s] = reducer(call.pre, call.act)

C12_Witness ==
    /\ K = 2 /\ Kind(2) = "save" /\ Kind(1) = "pass"
    /\ call.kind = "saved" /\ status[call.s] = "returned" /\ Idle
    /\ log = PassLog(call.s, call.act, 2)
    /\ result = Res("value", call.act)
    /\ state[call.s] = call.pre + call.act.amount

\* ------------------------------------------------------------------- C13
\* No middleware of the chain makes the construction fail: constructors that
\* dispatch catch the guard error, no constructor raises, no transform
\* dispatches or calls next.
GuardCaught ==
    \A i \in 1..K : Kind(i) \in {"pass", "short", "reenter", "throws", "save", "ctorCatch"}

C14_WrittenExactlyOnce ==
    \A s \in Stores : Over(s) => Len(writes[s]) = 1

\* C14: the cell starts at the guard and is written at most once, by line 87,
\* with the composed function: exactly once in a construction that returns a
\* store, never in one that ends with an error. Once written it is never
\* written again and no dispatch, re-entrant dispatch or handler error takes
\* it back to the guard or to another function.
C14_CellWrittenAtMostOnce ==
    \A s \in Stores :
        /\ status[s] = "none" => dispatch[s] = NoFn /\ writes[s] = <<>>
        /\ Len(writes[s]) <= 1
        /\ (status[s] # "none" /\ writes[s] = <<>>) => dispatch[s] = GuardFn
        /\ writes[s] # <<>> => dispatch[s] = EntryFn /\ writes[s] = <<EntryFn>>
        /\ status[s] = "returned" => Len(writes[s]) = 1
        /\ status[s] = "failed" => writes[s] = <<>>

C14_Witness ==
    /\ K = 3 /\ Kind(1) = "reenter" /\ Kind(2) = "throws"
    /\ status[1] = "returned" /\ Idle /\ calls = MaxCalls
    /\ call.kind = "dispatch" /\ call.afterError /\ result.kind = "error"
    /\ writes[1] = <<HandlerFn(1)>>
    /\ dispatch[1] = HandlerFn(1)

\* ------------------------------------------------------------------- C15
\* Some frame under position p is a transform waiting for the next it called.
CalledByTransform(p) ==
    \E q \in 1..(p - 1) :
        /\ stack[q].fn = "xform" /\ stack[q].pc = "called"
        /\ Kind(stack[q].i) = "xformNext"
        /\ stack[q].s = stack[p].s

\* C15 as stated: whenever a handler is executing, the cell is already bound,
\* also when a transform calls the next it was given during composition.
C15_HandlerOnlyWhenBound ==
    \A p \in 1..Len(stack) :
        stack[p].fn = "handler" => dispatch[stack[p].s] # GuardFn

\* C15: the write of the cell comes before every handler invocation made
\* through a dispatch: a handler runs with the cell still at the guard only
\* inside compose(...chain)(store.dispatch) of line 87, under a transform that
\* called the next it was given; in every call of the returned dispatch or of
\* a kept api.dispatch the cell is the composed function while a handler runs,
\* and no handler runs while a constructor does.
C15_HandlerBeforeWriteOnlyInCompose ==
    \A p \in 1..Len(stack) :
        stack[p].fn = "handler" =>
            /\ dispatch[stack[p].s] = GuardFn =>
                 /\ Constructs(stack[p].s)
                 /\ status[stack[p].s] = "constructing"
                 /\ stack[1].fn = "construct" /\ stack[1].pc = "compose"
                 /\ CalledByTransform(p)
            /\ call.kind \in {"dispatch", "saved"} =>
                 /\ dispatch[stack[p].s] = EntryFn
                 /\ writes[stack[p].s] = <<EntryFn>>
            /\ \A q \in 1..Len(stack) : stack[q].fn # "ctor"

C15_Witness ==
    /\ K = 3 /\ Kind(1) = "reenter"
    /\ call.kind = "dispatch"
    /\ Len(stack) = 4
    /\ Top.fn = "handler" /\ Top.i = 3 /\ Top.act = ReAction(1) /\ Top.pc = "start"
    /\ dispatch[Top.s] = HandlerFn(1)

\* ------------------------------------------------------------------- C16
\* C16 as stated: every call of the store creator invokes every constructor
\* exactly once, none skipped. A call in which a constructor raises never
\* invokes the constructors after it.
C16_EveryCtorOnce ==
    \A s \in Stores : Over(s) => ctorCalls[s] = [n \in 1..K |-> n]

\* C16: a call of the store creator builds the base store first, then invokes
\* the constructors one at a time in the order given, each at most once and
\* each with the one API object of that call; it composes only after all of
\* them have returned, a call that returns a store has invoked every one of
\* them exactly once, and none is invoked once the cell has been repointed.
\* (A call that ends with an error may have invoked only a first part of them.)
C16_CtorsOnceInOrder ==
    /\ \A s \in Stores :
          \/ status[s] = "none" /\ ctorCalls[s] = <<>> /\ views[s] = <<>>
          \/ /\ status[s] # "none"
             /\ store[s] = BaseStore
             /\ \A n \in 1..Len(ctorCalls[s]) :
                   ctorCalls[s][n] = n /\ views[s][n] = middlewareAPI(s)
             /\ Len(views[s]) = Len(ctorCalls[s])
             /\ Len(ctorCalls[s]) <= K
             /\ Len(chain[s]) <= Len(ctorCalls[s])
             /\ Len(ctorCalls[s]) <= Len(chain[s]) + 1
             /\ \A n \in 1..Len(chain[s]) : chain[s][n] = TransformOf(n)
             /\ (status[s] = "returned" \/ writes[s] # <<>>
                   \/ (\E n \in 1..K : nextOf[s][n] # NoFn)) =>
                      Len(ctorCalls[s]) = K /\ Len(chain[s]) = K
    /\ \A p \in 1..Len(stack) :
          LET s == stack[p].s
          IN  /\ stack[p].fn = "ctor" =>
                   /\ stack[p].i = Len(ctorCalls[s])
                   /\ Len(chain[s]) = stack[p].i - 1
                   /\ stack[p - 1] = Frame("construct", s, stack[p].i, NoVal, "map", NoFn)
                   /\ writes[s] = <<>>
                   /\ \A n \in 1..K : nextOf[s][n] = NoFn
              /\ stack[p].fn \in {"xform", "handler", "base"} =>
                   Len(ctorCalls[s]) = K /\ Len(chain[s]) = K

C16_Witness ==
    /\ K = 3 /\ status[1] = "returned" /\ Idle /\ Constructs(1)
    /\ ctorCalls[1] = <<1, 2, 3>>
    /\ views[1] = <<middlewareAPI(1), middlewareAPI(1), middlewareAPI(1)>>
    /\ chain[1] = <<TransformOf(1), TransformOf(2), TransformOf(3)>>
    /\ writes[1] = <<HandlerFn(1)>>

\* ------------------------------------------------------------------- C17
\* The next that mw1(mw2(...mwK(d)...)) gives transform i.
NextFor(i) == IF i < K THEN HandlerFn(i + 1) ELSE BaseFn

\* C17: the composed dispatch is mw1(mw2(...mwK(d)...)): transform i is given
\* the handler of transform i + 1 as its next and transform K the base store's
\* own dispatch, never the cell (the guard at that time), the forwarding
\* api.dispatch or the composed function; the transforms are applied from the
\* last to the first, and the function assigned and returned is the handler
\* of the first.
C17_ComposeNesting ==
    /\ \A s \in Stores :
          \/ status[s] = "none"
          \/ /\ \A i \in 1..K :
                   /\ nextOf[s][i] = NoFn \/ nextOf[s][i] = NextFor(i)
                   /\ (i < K /\ nextOf[s][i] # NoFn) => nextOf[s][i + 1] # NoFn
             /\ K >= 1 => nextOf[s][K] \notin {GuardFn, ApiFn, HandlerFn(1)}
             /\ writes[s] # <<>> =>
                   /\ K >= 1 => nextOf[s][1] = NextFor(1)
                   /\ writes[s] = <<EntryFn>>
             /\ status[s] = "returned" => returned[s] = EntryFn
    /\ \A p \in 1..Len(stack) :
          /\ stack[p].fn = "xform" => stack[p].nx = NextFor(stack[p].i)
          /\ (p > 1 /\ stack[p - 1].fn = "handler" /\ stack[p - 1].pc = "after") =>
                /\ stack[p].fn = NextFor(stack[p - 1].i).f
                /\ stack[p].i = NextFor(stack[p - 1].i).i

C17_Witness ==
    /\ K = 3 /\ status[1] = "returned" /\ call.kind = "dispatch" /\ call.s = 1
    /\ nextOf[1] = <<HandlerFn(2), HandlerFn(3), BaseFn>>
    /\ Len(stack) = 4 /\ Top.fn = "base"
    /\ stack[3].fn = "handler" /\ stack[3].i = 3 /\ stack[3].pc = "after"
    /\ store[1].dispatch = BaseFn /\ dispatch[1] = HandlerFn(1)

\* ------------------------------------------------------------------- C18
\* C18: stores built by separate calls of the same store creator are
\* independent. Each has its own base store, cell, API object and chain;
\* whatever runs during a call runs for the store of that call only (its
\* frames, its handlers in the log); a call leaves the state of every other
\* store as it was when the call started; and a store that was returned keeps
\* its cell at its own composed function whatever happens to another store,
\* a failed construction included.
C18_StoresIndependent ==
    /\ \A p \in 1..Len(stack) : stack[p].s = call.s
    /\ \A n \in 1..Len(log) : log[n].s = call.s
    /\ \A t \in Stores :
          /\ (call.kind # "none" /\ t # call.s) => state[t] = call.preAll[t]
          /\ \A n \in 1..Len(views[t]) : views[t][n].id = t
          /\ status[t] = "returned" =>
                /\ dispatch[t] = EntryFn
                /\ returned[t] = EntryFn
                /\ store[t] = BaseStore
                /\ \A i \in 1..K : nextOf[t][i] = NextFor(i)
          /\ status[t] = "none" =>
                /\ dispatch[t] = NoFn /\ store[t] = NoStore /\ chain[t] = <<>>
                /\ state[t] = InitialState /\ sent[t] = <<>>

C18_Witness ==
    /\ K = 1 /\ Kind(1) = "ctorOnce"
    /\ status[1] = "returned" /\ status[2] = "failed"
    /\ Idle /\ call.kind = "dispatch" /\ call.s = 1 /\ result.kind = "value"
    /\ dispatch[1] = HandlerFn(1) /\ dispatch[2] = GuardFn
    /\ state[1] = 2 /\ state[2] = InitialState

\* ------------------------------------------------------------------- C19
\* The state of the current call's store when entry n of the log was about to
\* be written: the state at the call, and from then on the state the entry
\* before n left (a base entry records the state it produced, a handler entry
\* the state it read).
StateAt(n) == IF n = 1 THEN call.pre ELSE seen[n - 1]

\* C19: api.getState returns the base store's current state. What a handler
\* reads before and after next is the state at the call as changed by the
\* base dispatches made since, and by nothing else: through a chain of
\* passing handlers the state before the action on the way in and the state
\* with the action on the way out. The state of a store changes only where
\* the base dispatch applies an action, so a construction whose transforms
\* do not call next leaves the initial state.
C19_GetStateIsCurrent ==
    LET plain == call.kind \in {"dispatch", "saved"} /\ AllPass
    IN  /\ Len(seen) = Len(log)
        /\ \A n \in 1..Len(log) :
              IF log[n].tag = "base"
              THEN seen[n] = reducer(StateAt(n), log[n].act)
              ELSE /\ seen[n] = StateAt(n)
                   /\ (plain /\ log[n].tag = "before") => seen[n] = call.pre
                   /\ (plain /\ log[n].tag = "after") =>
                         seen[n] = reducer(call.pre, call.act)
        /\ call.kind # "none" => state[call.s] = StateAt(Len(log) + 1)
        /\ (call.kind = "construct" /\ \A i \in 1..K : Kind(i) # "xformNext") =>
              state[call.s] = InitialState

C19_Witness ==
    /\ K = 2 /\ AllPass /\ Idle /\ call.kind = "dispatch" /\ calls = 3
    /\ call.pre = 1 /\ call.act.amount = 2
    /\ Len(log) = 5
    /\ seen = <<1, 1, 3, 3, 3>>
    /\ state[call.s] = 3

====
